---- MODULE Spec2Model ----
(***************************************************************************)
(* Egg Store API (src/main.py): seeding of the product collection at       *)
(* process start, GET /api/products and POST /api/orders over a document   *)
(* store that may be absent (db is None) or may raise on any call.         *)
(*                                                                         *)
(* Strings are sequences of symbols, so that str(ObjectId), ObjectId(str)  *)
(* and the f-string of the 404 detail are real conversions.  Money is in   *)
(* thousandths (4.99 is 4990) so that round(total, 2) is a real rounding.  *)
(* A product's description and image are carried exactly like its          *)
(* category and are left out.                                              *)
(***************************************************************************)
EXTENDS Integers, Sequences, FiniteSets, TLC

VARIABLES
  running,   \* the process has been imported and serves requests (lines 85-86)
  db,        \* the handle of line 8: "none" (db is None) or "conn"
  product,   \* the store's product collection, in insertion order
  order,     \* the store's order collection, in insertion order
  op,        \* what the worker has just run: "idle", "startup" or a route
  request,   \* the body of the request just handled
  fault,     \* the store call of that run that raised (0: none)
  response   \* the answer of that run

vars == <<running, db, product, order, op, request, fault, response>>

(* ---------------- bounds ---------------- *)
\* Items per request, quantity per item, order lines the order collection
\* has room for, products repriced at any one time, digits of an ObjectId.
MaxItems == 2
MaxQty == 2
MaxStoredItems == 2
MaxPriceChanges == 1
IdLen == 2

(* ---------------- strings and ObjectIds ---------------- *)
\* An ObjectId is IdLen digits and renders as IdLen characters; four digit
\* symbols stand for the sixteen hexadecimal ones.
HexChars == <<"0", "1", "2", "3">>

HexBase == Len(HexChars)

RECURSIVE Pow(_, _)
Pow(b, e) == IF e = 0 THEN 1 ELSE b * Pow(b, e - 1)

\* The n-th ObjectId the store hands out: IdLen digits, most significant first.
OidOf(n) == [i \in 1..IdLen |-> (n \div Pow(HexBase, IdLen - i)) % HexBase]

\* str(ObjectId): the hexadecimal rendering of the id.
StrOfOid(oid) == [i \in 1..Len(oid) |-> HexChars[oid[i] + 1]]

IsHexChar(c) == \E k \in 1..HexBase : HexChars[k] = c

HexValue(c) == (CHOOSE k \in 1..HexBase : HexChars[k] = c) - 1

\* ObjectId(s) raises InvalidId unless s is IdLen hexadecimal characters.
ValidOidString(s) == Len(s) = IdLen /\ \A i \in 1..Len(s) : IsHexChar(s[i])

ParseOid(s) == [i \in 1..Len(s) |-> HexValue(s[i])]

\* The next identity the store assigns to an inserted document.
NextOid == OidOf(Len(product) + Len(order))

(* ---------------- money ---------------- *)
\* round(x, 2) on thousandths; the prices below never produce a tie.
Round2(m) == ((m + 5) \div 10) * 10

FallbackPrice == 4990

FallbackTitle == "Free-Range Eggs (12 pcs)"

(* ---------------- documents ---------------- *)
Get(doc, key, default) == IF key \in DOMAIN doc THEN doc[key] ELSE default

sample_products ==
  << [title |-> "Free-Range Eggs (12 pcs)", price |-> 4990, category |-> "chicken", in_stock |-> TRUE],
     [title |-> "Organic Eggs (12 pcs)", price |-> 5990, category |-> "organic", in_stock |-> TRUE],
     [title |-> "Omega-3 Enriched Eggs (12 pcs)", price |-> 6490, category |-> "enriched", in_stock |-> TRUE],
     [title |-> "Quail Eggs (24 pcs)", price |-> 7490, category |-> "quail", in_stock |-> TRUE],
     [title |-> "Duck Eggs (6 pcs)", price |-> 4490, category |-> "duck", in_stock |-> TRUE] >>

\* insert_one: the store adds the identity field to the inserted document.
WithId(doc, oid) == [k \in DOMAIN doc \cup {"_id"} |-> IF k = "_id" THEN oid ELSE doc[k]]

\* A document written to the product collection by another client of the
\* store, before this process ever started: it has neither price nor title.
LegacyProduct == WithId([category |-> "goose", in_stock |-> TRUE], OidOf(0))

\* Prices another client of the store may later set on a product.
ExternalPrices == {1004}

\* Mutant of to_str_id: the identity is copied under "id" but never popped.
to_str_id_keeping_id(doc) ==
  IF "_id" \in DOMAIN doc
    THEN [k \in DOMAIN doc \cup {"id"} |->
            IF k = "id" THEN StrOfOid(doc["_id"]) ELSE doc[k]]
    ELSE doc

to_str_id(doc) ==
  IF "_id" \in DOMAIN doc
    THEN [k \in (DOMAIN doc \ {"_id"}) \cup {"id"} |->
            IF k = "id" THEN StrOfOid(doc["_id"]) ELSE doc[k]]
    ELSE doc

DemoProducts ==
  << [id |-> <<"0">>, title |-> "Free-Range Eggs (12 pcs)", price |-> 4990,
      category |-> "chicken", in_stock |-> TRUE] >>

(* ---------------- store calls ---------------- *)
count_documents(coll) == Len(coll)

\* find_one({"_id": oid}): the first document with that identity, as a
\* one-element sequence, or the empty sequence for None.
find_one(coll, oid) ==
  IF \E i \in 1..Len(coll) : coll[i]["_id"] = oid
    THEN << coll[CHOOSE i \in 1..Len(coll) :
                   /\ coll[i]["_id"] = oid
                   /\ \A j \in 1..(i - 1) : coll[j]["_id"] # oid] >>
    ELSE <<>>

\* insert_one of docs[1..n] in turn, each taking the next free identity.
RECURSIVE InsertAll(_, _, _)
InsertAll(coll, docs, base) ==
  IF docs = <<>> THEN coll
  ELSE InsertAll(Append(coll, WithId(Head(docs), OidOf(base))), Tail(docs), base + 1)

(* ---------------- seeding ---------------- *)
\* Mutant of seed_products: the count > 0 return is missing.
seed_products_without_count(d, coll, nOrders, failAt) ==
  IF d = "none" THEN [product |-> coll, raised |-> 0]
  ELSE IF failAt = 1 THEN [product |-> coll, raised |-> 1]
  ELSE IF failAt \in 2..(Len(sample_products) + 1)
    THEN [product |-> InsertAll(coll, SubSeq(sample_products, 1, failAt - 2), Len(coll) + nOrders),
          raised |-> failAt]
    ELSE [product |-> InsertAll(coll, sample_products, Len(coll) + nOrders), raised |-> 0]

\* seed_products() under handle d; store call 1 is count_documents, call k+1
\* the k-th insert_one; failAt names the first call that raises (0: none).
\* raised is the call that did raise, 0 when seeding returned normally.
seed_products(d, coll, nOrders, failAt) ==
  IF d = "none" THEN [product |-> coll, raised |-> 0]
  ELSE IF failAt = 1 THEN [product |-> coll, raised |-> 1]
  ELSE IF count_documents(coll) > 0 THEN [product |-> coll, raised |-> 0]
  ELSE IF failAt \in 2..(Len(sample_products) + 1)
    THEN [product |-> InsertAll(coll, SubSeq(sample_products, 1, failAt - 2), Len(coll) + nOrders),
          raised |-> failAt]
    ELSE [product |-> InsertAll(coll, sample_products, Len(coll) + nOrders), raised |-> 0]

NoRequest == [items |-> <<>>]

NoResponse == [code |-> 0]

\* Module import: the handle is taken from the environment, then line 86
\* seeds.  An exception out of seed_products ends the process.
Startup(d, failAt) ==
  LET r == seed_products(d, product, Len(order), failAt) IN
    /\ op = "idle"
    /\ product' = r.product
    /\ running' = (r.raised = 0)
    /\ db' = IF r.raised = 0 THEN d ELSE "none"
    /\ fault' = r.raised
    /\ op' = "startup"
    /\ request' = NoRequest
    /\ response' = NoResponse
    /\ UNCHANGED order

(* ---------------- GET /api/products ---------------- *)
list_products(d, coll, failAt) ==
  IF d = "none" THEN [code |-> 200, body |-> DemoProducts, raised |-> 0]
  ELSE IF failAt = 1 THEN [code |-> 500, raised |-> 1]
  ELSE [code |-> 200, body |-> [i \in 1..Len(coll) |-> to_str_id(coll[i])], raised |-> 0]

ListProducts(failAt) ==
  LET r == list_products(db, product, failAt) IN
    /\ running
    /\ op = "idle"
    /\ op' = "list_products"
    /\ request' = NoRequest
    /\ fault' = r.raised
    /\ response' = [k \in DOMAIN r \ {"raised"} |-> r[k]]
    /\ UNCHANGED <<running, db, product, order>>

(* ---------------- POST /api/orders ---------------- *)
MissingField == "<missing>"

\* CreateOrderInput: payment_method defaults to "card" when the body omits it.
CreateOrderInput(body) ==
  [body EXCEPT !.payment_method = IF @ = MissingField THEN "card" ELSE @]

\* Lines 145-148: ObjectId(product_id) and find_one inside try/except; a
\* malformed id and a raising store call both leave prod = None.
lookup_product(coll, product_id, raises) ==
  IF raises \/ ~ValidOidString(product_id) THEN <<>>
  ELSE find_one(coll, ParseOid(product_id))

\* Mutant of resolve_item: a missing product falls back to the demo values.
resolve_item_with_fallback(d, coll, product_id, raises) ==
  LET prod == IF d = "none" THEN <<>> ELSE lookup_product(coll, product_id, raises) IN
    IF prod = <<>>
      THEN [found |-> TRUE, price |-> FallbackPrice, title |-> FallbackTitle]
      ELSE [found |-> TRUE, price |-> Get(prod[1], "price", 0),
            title |-> Get(prod[1], "title", "Eggs")]

\* Mutant of resolve_item: the db is None branch is missing, so the lookup
\* runs (and finds nothing) without a handle.
resolve_item_without_none_check(d, coll, product_id, raises) ==
  LET prod == IF d = "none" THEN <<>> ELSE lookup_product(coll, product_id, raises) IN
    IF prod = <<>> THEN [found |-> FALSE]
    ELSE [found |-> TRUE, price |-> Get(prod[1], "price", 0),
          title |-> Get(prod[1], "title", "Eggs")]

\* Lines 140-152: price and title of one item; found = FALSE is the 404.
resolve_item(d, coll, product_id, raises) ==
  IF d = "none"
    THEN [found |-> TRUE, price |-> FallbackPrice, title |-> FallbackTitle]
  ELSE
    LET prod == lookup_product(coll, product_id, raises) IN
      IF prod = <<>> THEN [found |-> FALSE]
      ELSE [found |-> TRUE, price |-> Get(prod[1], "price", 0),
            title |-> Get(prod[1], "title", "Eggs")]

\* Mutant of subtotal_of: the quantity is dropped.
subtotal_without_quantity(price, quantity) == price

subtotal_of(price, quantity) == price * quantity

\* The loop of lines 138-155 from item i on; store call i is the lookup of
\* item i.  It ends at the first item without a product or after the last.
RECURSIVE order_loop(_, _, _, _, _, _)
order_loop(d, coll, its, i, acc, failAt) ==
  IF i > Len(its) THEN [found |-> TRUE, items |-> acc.items, total |-> acc.total]
  ELSE
    LET it == its[i]
        res == resolve_item(d, coll, it.product_id, failAt = i)
    IN
      IF ~res.found
        THEN [found |-> FALSE, at |-> i, raised |-> IF failAt = i THEN i ELSE 0]
        ELSE
          LET subtotal == subtotal_of(res.price, it.quantity)
              item == [product_id |-> it.product_id, title |-> res.title,
                       price |-> res.price, quantity |-> it.quantity,
                       subtotal |-> subtotal]
          IN order_loop(d, coll, its, i + 1,
                        [items |-> Append(acc.items, item), total |-> acc.total + subtotal],
                        failAt)

payment_status(payment_method) == IF payment_method = "card" THEN "paid" ELSE "pending"

stored_payment_method(payment_method) ==
  IF payment_method \in {"card", "cod"} THEN payment_method ELSE "card"

\* create_document("order", model) of the persistence adapter: raises without
\* a handle, otherwise inserts and returns the new identity as a string.
create_document(d, coll, doc, oid, raises) ==
  IF d = "none" \/ raises THEN [raised |-> TRUE, coll |-> coll]
  ELSE [raised |-> FALSE, coll |-> Append(coll, WithId(doc, oid)), id |-> StrOfOid(oid)]

DemoOrderId == <<"demo-order-id">>

\* Mutant of persist_order: the placeholder assignment is unconditional.
persist_order_always_placeholder(d, coll, doc, oid, raises) ==
  LET c == create_document(d, coll, doc, oid, raises) IN
    [order_id |-> DemoOrderId, coll |-> c.coll]

\* Lines 170-174: the insert, and the placeholder id when it raises.
persist_order(d, coll, doc, oid, raises) ==
  LET c == create_document(d, coll, doc, oid, raises) IN
    [order_id |-> IF c.raised THEN DemoOrderId ELSE c.id, coll |-> c.coll]

\* Lines 135-176: the response, the order collection afterwards and the store
\* call that raised (0: none).  Store call Len(items)+1 is the insert.
process_order(d, prods, orders, oid, payload, failAt) ==
  LET r == order_loop(d, prods, payload.items, 1, [items |-> <<>>, total |-> 0], failAt) IN
    IF ~r.found
      THEN [response |-> [code |-> 404,
                          detail |-> <<"Product not found: ">> \o payload.items[r.at].product_id],
            order |-> orders, raised |-> r.raised]
    ELSE
      LET status == payment_status(payload.payment_method)
          order_model == [items |-> r.items,
                          customer_name |-> payload.customer_name,
                          email |-> payload.email,
                          address |-> payload.address,
                          payment_method |-> stored_payment_method(payload.payment_method),
                          total_amount |-> Round2(r.total),
                          status |-> status]
          insertFails == failAt = Len(payload.items) + 1
          saved == persist_order(d, orders, order_model, oid, insertFails)
      IN [response |-> [code |-> 200,
                        body |-> [order_id |-> saved.order_id, status |-> status,
                                  total |-> Round2(r.total)]],
          order |-> saved.coll,
          raised |-> IF d # "none" /\ insertFails THEN failAt ELSE 0]

\* Mutant of create_order: the emptiness check of lines 131-132 is missing.
create_order_without_empty_check(d, prods, orders, oid, payload, failAt) ==
  process_order(d, prods, orders, oid, payload, failAt)

create_order(d, prods, orders, oid, payload, failAt) ==
  IF payload.items = <<>>
    THEN [response |-> [code |-> 400, detail |-> <<"No items in order">>],
          order |-> orders, raised |-> 0]
    ELSE process_order(d, prods, orders, oid, payload, failAt)

RECURSIVE StoredItems(_)
StoredItems(orders) ==
  IF orders = <<>> THEN 0 ELSE Len(Head(orders).items) + StoredItems(Tail(orders))

\* A request is taken while the order collection has room for its items.
CreateOrder(body, failAt) ==
  LET payload == CreateOrderInput(body)
      r == create_order(db, product, order, NextOid, payload, failAt)
  IN
    /\ StoredItems(order) + Len(body.items) <= MaxStoredItems
    /\ running
    /\ op = "idle"
    /\ op' = "create_order"
    /\ request' = body
    /\ fault' = r.raised
    /\ response' = r.response
    /\ order' = r.order
    /\ UNCHANGED <<running, db, product>>

(* ---------------- other clients of the store ---------------- *)
\* The store is shared: another client may reprice a product at any time.
ExternalPriceChange(i, p) ==
  /\ op = "idle"
  /\ i \in 1..Len(product)
  /\ Get(product[i], "price", 0) \notin ExternalPrices
  /\ Cardinality({j \in 1..Len(product) : Get(product[j], "price", 0) \in ExternalPrices})
       < MaxPriceChanges
  /\ product' = [product EXCEPT ![i] =
                   [k \in DOMAIN @ \cup {"price"} |-> IF k = "price" THEN p ELSE @[k]]]
  /\ UNCHANGED <<running, db, order, op, request, fault, response>>

(* ---------------- end of a request ---------------- *)
\* The handler has returned and the framework has sent its response (or the
\* import has ended): the worker waits for the next request.
Respond ==
  /\ op # "idle"
  /\ op' = "idle"
  /\ request' = NoRequest
  /\ fault' = 0
  /\ response' = NoResponse
  /\ UNCHANGED <<running, db, product, order>>

(* ---------------- inputs ---------------- *)
\* product_id strings of requests: the first two identities the store hands
\* out, a well-formed identity the store never hands out, a malformed one.
UnknownOid == OidOf(Pow(HexBase, IdLen) - 1)

ProductIdInputs ==
  { StrOfOid(OidOf(0)), StrOfOid(OidOf(1)), StrOfOid(UnknownOid),
    [i \in 1..IdLen |-> "z"], SubSeq(StrOfOid(OidOf(0)), 1, IdLen - 1) }

ItemInputs == [product_id : ProductIdInputs, quantity : 1..MaxQty]

ItemLists == UNION { [1..n -> ItemInputs] : n \in 0..MaxItems }

PaymentInputs == {MissingField, "card", "cod", "paypal"}

Bodies ==
  [items : ItemLists, customer_name : {"Ann"}, email : {"ann@example.com"},
   address : {"1 Farm Road"}, payment_method : PaymentInputs]

(* ---------------- specification ---------------- *)
Init ==
  /\ running = FALSE
  /\ db = "none"
  /\ product \in {<<>>, <<LegacyProduct>>}
  /\ order = <<>>
  /\ op = "idle"
  /\ request = NoRequest
  /\ fault = 0
  /\ response = NoResponse

Next ==
  \/ \E d \in {"none", "conn"}, failAt \in 0..(Len(sample_products) + 1) : Startup(d, failAt)
  \/ \E failAt \in 0..1 : ListProducts(failAt)
  \/ /\ running /\ op = "idle"
     /\ \E body \in Bodies : \E failAt \in 0..(Len(body.items) + 1) : CreateOrder(body, failAt)
  \/ \E i \in 1..Len(product), p \in ExternalPrices : ExternalPriceChange(i, p)
  \/ Respond

Spec == Init /\ [][Next]_vars

(* ---------------- vocabulary of the properties ---------------- *)
\* A product_id matches a stored product when some stored product's identity
\* renders to exactly that string.
Matches(product_id) ==
  \E i \in 1..Len(product) : StrOfOid(product[i]["_id"]) = product_id

MatchedProduct(product_id) ==
  product[CHOOSE i \in 1..Len(product) : StrOfOid(product[i]["_id"]) = product_id]

\* The price an item resolves to: the stored price (0 when the document has
\* none) under a handle, 4.99 without one.
ResolvedPrice(product_id) ==
  IF db = "none" THEN 4990
  ELSE IF "price" \in DOMAIN MatchedProduct(product_id)
    THEN MatchedProduct(product_id).price ELSE 0

AllResolve(its) == db = "none" \/ \A i \in 1..Len(its) : Matches(its[i].product_id)

RECURSIVE SumOfLines(_)
SumOfLines(its) ==
  IF its = <<>> THEN 0
  ELSE ResolvedPrice(Head(its).product_id) * Head(its).quantity + SumOfLines(Tail(its))

\* The whole-cent amount (in thousandths) nearest to m: one of the two whole
\* cents around m, whichever is less than half a cent away.
ToCents(m) ==
  LET below == m - (m % 10)
      above == below + 10
  IN CHOOSE c \in {below, above} : 2 * (IF c >= m THEN c - m ELSE m - c) < 10

IsPrefix(a, b) == Len(a) <= Len(b) /\ SubSeq(b, 1, Len(a)) = a

SampleTitles == [i \in 1..Len(sample_products) |-> sample_products[i].title]

(* ---------------- C1 ---------------- *)
\* C1: a create_order request with a non-empty items list whose items all
\* resolve (and whose lookups all return) is answered 200, and the total of
\* every 200 answer is the sum over the request's items of resolved price
\* times quantity, rounded to whole cents.
C1_TotalIsRoundedSum ==
  (op = "create_order" /\ request.items # <<>>) =>
    /\ (AllResolve(request.items) /\ fault \notin 1..Len(request.items))
          => response.code = 200
    /\ response.code = 200
          => response.body.total = ToCents(SumOfLines(request.items))

C1_Witness ==
  /\ op = "create_order" /\ db = "conn" /\ response.code = 200
  /\ Len(request.items) = 2
  /\ request.items[1].product_id # request.items[2].product_id
  /\ request.items[1].quantity = 2
  /\ response.body.total # SumOfLines(request.items)

(* ---------------- C2 ---------------- *)
\* C2: in every successful create_order the returned status is "paid" exactly
\* when the payment_method, after a missing or unknown value is normalized to
\* "card", is "card".
C2_StatusFollowsNormalizedMethod ==
  (op = "create_order" /\ response.code = 200) =>
    LET sent == request.payment_method
        normalized == IF sent \in {"card", "cod"} THEN sent ELSE "card"
    IN (response.body.status = "paid") <=> (normalized = "card")

(* ---------------- C3 ---------------- *)
\* C3: every stored order has status "paid" if its stored payment_method is
\* "card" and "pending" otherwise.
C3_StoredStatusMatchesMethod ==
  \A i \in 1..Len(order) :
    order[i].status = IF order[i].payment_method = "card" THEN "paid" ELSE "pending"

(* ---------------- C4 ---------------- *)
FirstUnmatched(its) ==
  CHOOSE i \in 1..Len(its) :
    /\ ~Matches(its[i].product_id)
    /\ \A j \in 1..(i - 1) : Matches(its[j].product_id)

C5_StorageFailureNeverSurfaced ==
  fault # 0 =>
    /\ op = "list_products" => response = [code |-> 200, body |-> DemoProducts]
    /\ (op = "create_order" /\ request.items # <<>> /\ AllResolve(request.items))
          => (response.code = 200 /\ response.body.order_id = DemoOrderId)

(* ---------------- C6 ---------------- *)
\* C6 as claimed: every successful create_order inserts exactly one order, and
\* no step changes or removes a stored order.
C6_EverySuccessInsertsOne ==
  [][ /\ IsPrefix(order, order')
      /\ (op' = "create_order" /\ response'.code = 200)
            => Len(order') = Len(order) + 1
    ]_vars

\* C6 as amended: a successful create_order carrying a store-assigned order id
\* inserts exactly one order, which holds the answered total and status under
\* that id; one carrying the placeholder id inserts none; no other step adds
\* an order; no step changes or removes a stored order.
C6_StoredIdMeansOneInsert ==
  [][ /\ IsPrefix(order, order')
      /\ IF op' = "create_order" /\ response'.code = 200
           THEN IF response'.body.order_id = DemoOrderId
                  THEN order' = order
                  ELSE /\ Len(order') = Len(order) + 1
                       /\ LET o == order'[Len(order')] IN
                            /\ StrOfOid(o["_id"]) = response'.body.order_id
                            /\ o.total_amount = response'.body.total
                            /\ o.status = response'.body.status
           ELSE order' = order
    ]_vars

\* An order whose first line holds a price the product no longer has.
C6_Witness ==
  /\ Len(order) = 2
  /\ Matches(order[1].items[1].product_id)
  /\ order[1].items[1].price # Get(MatchedProduct(order[1].items[1].product_id), "price", 0)

RECURSIVE TotalQuantity(_)
TotalQuantity(its) ==
  IF its = <<>> THEN 0 ELSE Head(its).quantity + TotalQuantity(Tail(its))

C8_NoHandleFallbacks ==
  (running /\ db = "none") =>
    /\ op = "list_products"
         => /\ response.code = 200
            /\ Len(response.body) = 1
            /\ response.body[1].id = <<"0">>
    /\ (op = "create_order" /\ request.items # <<>>)
         => /\ response.code = 200
            /\ response.body.order_id = DemoOrderId
            /\ response.body.total = ToCents(4990 * TotalQuantity(request.items))

C8_Witness ==
  /\ running /\ db = "none" /\ op = "create_order"
  /\ Len(request.items) = 2
  /\ ~ValidOidString(request.items[1].product_id)
  /\ response.code = 200

(* ---------------- C9 ---------------- *)
\* C9: a create_order request with an empty items list is answered 400, makes
\* no store call, and leaves the order collection as it was, with or without a
\* handle and whatever its other fields.
C9_EmptyItemsIs400 ==
  [][ (op' = "create_order" /\ request'.items = <<>>)
      => /\ response'.code = 400
         /\ fault' = 0
         /\ order' = order
    ]_vars

C9_Witness ==
  /\ op = "create_order" /\ request.items = <<>>
  /\ db = "conn" /\ request.payment_method = "paypal"
  /\ response.code = 400
  /\ order # <<>>

(* ---------------- C10 ---------------- *)
\* C10: list_products leaves both collections as they were, and under a
\* handle its answer holds each stored product once, in stored order, with
\* the identity removed and rendered as a string under "id" and every other
\* field as stored.
C10_ListIsReadOnlyRendering ==
  [][ op' = "list_products"
      => /\ product' = product
         /\ order' = order
         /\ (db = "conn" /\ response'.code = 200)
              => /\ Len(response'.body) = Len(product)
                 /\ \A i \in 1..Len(product) :
                      LET shown == response'.body[i] IN
                        /\ DOMAIN shown = (DOMAIN product[i] \ {"_id"}) \cup {"id"}
                        /\ ValidOidString(shown.id)
                        /\ ParseOid(shown.id) = product[i]["_id"]
                        /\ \A k \in DOMAIN product[i] \ {"_id"} : shown[k] = product[i][k]
    ]_vars

C10_Witness ==
  /\ op = "list_products" /\ db = "conn" /\ response.code = 200
  /\ Len(response.body) = 5
  /\ \E i \in 1..Len(product) : product[i].price \in ExternalPrices

====
